---- MODULE Spec2Model ----
(***************************************************************************)
(* The ACER replay buffer of stable_baselines/acer/buffer.py: a ring of    *)
(* slots written by put, sampled by get, with the frame-stacking decode.   *)
(*                                                                         *)
(* Arrays are functions over 0-based index ranges, as in Python.  A frame  *)
(* is one pixel (height = width = n_channels = 1): decode's arithmetic is  *)
(* elementwise over the pixel axes, so a frame is represented by one uint8 *)
(* value.  Rewards and mus are integer valued floats; actions are counted  *)
(* in halves.                                                              *)
(***************************************************************************)
EXTENDS Integers, Sequences, FiniteSets, TLC

VARIABLES
    nsteps,         \* self.nsteps
    nstack,         \* self.nstack
    size,           \* self.size  (the ring capacity, size // nsteps)
    enc_obs,        \* self.enc_obs
    actions,        \* self.actions
    rewards,        \* self.rewards
    mus,            \* self.mus
    dones,          \* self.dones
    masks,          \* self.masks
    next_idx,       \* self.next_idx
    num_in_buffer,  \* self.num_in_buffer
    call,           \* the last call made and its arguments
    prevOp,         \* the name of the call made before the last one
    ret,            \* what the last call returned or raised
    hist,           \* the batches admitted by the puts that completed, oldest first
    writer,         \* per slot, the number of the admission that wrote it last
    pc,             \* per thread, the line its call is about to run (0: no call)
    lock,           \* the holder of the exclusive lock ("none": no lock is used)
    loc             \* per thread, the arguments and local variables of its call

vars == <<nsteps, nstack, size, enc_obs, actions, rewards, mus, dones, masks,
          next_idx, num_in_buffer, call, prevOp, ret, hist, writer, pc, lock, loc>>

store == <<enc_obs, actions, rewards, mus, dones, masks>>

threads == <<pc, lock, loc>>

\* one caller, one call at a time, as the class is written for
NoCall == [put |-> 0, get |-> 0]

NoLocals == [put |-> 0, get |-> [op |-> "none"]]

SingleThread == pc = NoCall /\ lock = "none" /\ loc = NoLocals

(***************************************************************************)
(* Bounds of the model.                                                    *)
(***************************************************************************)
MaxSteps == 2       \* nsteps ranges over 1..MaxSteps
MaxStack == 4       \* nstack ranges over 1..MaxStack (decode) or its top two (buffer)
MaxSize == 2        \* the constructor's size argument ranges over 0..MaxSize
MaxPuts == 3        \* completed puts per run
MaxDecSteps == 3    \* nsteps of a direct decode call ranges over 1..MaxDecSteps
MaxFrames == 3      \* has_atleast is asked for 0..MaxFrames frames
Seeds == {1, 2, 3}  \* the input batches offered to put

n_env == 2          \* env.num_envs
Envs == 0 .. (n_env - 1)

Range(n) == 0 .. (n - 1)
Max(a, b) == IF a >= b THEN a ELSE b
Min(a, b) == IF a <= b THEN a ELSE b

(***************************************************************************)
(* numpy's casts on assignment into the storage arrays.                    *)
(***************************************************************************)
ToUint8(v) == v % 256

\* Action values are counted in halves (3 stands for 1.5), all far inside the
\* int32 range: the cast of a float to int32 drops the fraction, towards zero.
ToInt32(h) == IF h >= 0 THEN h - (h % 2) ELSE 0 - ((0 - h) - ((0 - h) % 2))

\* float32 keeps 24 significant bits: integers up to 2^24 are exact, beyond
\* that (up to 2^25) the spacing is 2 and ties go to the even mantissa.
ToFloat32Abs(v) ==
    IF v <= 16777216 THEN v
    ELSE IF v % 2 = 0 THEN v
    ELSE IF (v - 1) % 4 = 0 THEN v - 1 ELSE v + 1

ToFloat32(v) == IF v >= 0 THEN ToFloat32Abs(v) ELSE 0 - ToFloat32Abs(0 - v)

ToBool(v) == IF v \in BOOLEAN THEN v ELSE v # 0

\* the value v as an array of the given dtype holds it
Cast(dtype, v) ==
    CASE dtype = "uint8" -> ToUint8(v)
      [] dtype = "int32" -> ToInt32(v)
      [] dtype = "float32" -> ToFloat32(v)
      [] dtype = "bool" -> ToBool(v)

CastArr(arr, dtype) ==
    [e \in DOMAIN arr |-> [s \in DOMAIN arr[e] |-> Cast(dtype, arr[e][s])]]

CastMus(arr) ==
    [e \in DOMAIN arr |->
        [s \in DOMAIN arr[e] |->
            [a \in DOMAIN arr[e][s] |-> ToFloat32(arr[e][s][a])]]]

(***************************************************************************)
(* decode, lines 53-79.                                                    *)
(***************************************************************************)
\* number of frames per environment of an observation block
NFrames(obs_block) == Cardinality(DOMAIN obs_block[0])

\* line 69: x_var[j][e], the block reshaped and with its first two axes swapped
XVar0(obs_block, n_stack, n_steps) ==
    [j \in Range(n_steps + n_stack) |-> [e \in Envs |-> obs_block[e][j]]]

\* the keep mask with the flag itself in place of 1.0 - dones
KeepInverted(dones_arr, n_steps) ==
    [s \in Range(n_steps) |->
        [e \in Envs |-> IF dones_arr[e][s] THEN 1 ELSE 0]]

\* line 70, right-hand side: keep[s][e] = 1.0 - dones[e][s]
Keep(dones_arr, n_steps) ==
    [s \in Range(n_steps) |->
        [e \in Envs |-> IF dones_arr[e][s] THEN 0 ELSE 1]]

\* length of the slice y_var[3:]
YTailLen(n_stack, n_steps) == Max(0, n_steps + n_stack - 1 - 3)

\* line 70 succeeds when the shapes agree or the value broadcasts (n_steps = 1)
YAssignOk(n_stack, n_steps) ==
    \/ YTailLen(n_stack, n_steps) = n_steps
    \/ n_steps = 1

\* the warm-up rows of the mask cleared instead of set
YVar0Cleared(dones_arr, n_stack, n_steps) ==
    [j \in Range(n_steps + n_stack - 1) |->
        [e \in Envs |->
            IF j < 3 THEN 0
            ELSE IF n_steps = 1 THEN Keep(dones_arr, n_steps)[0][e]
            ELSE Keep(dones_arr, n_steps)[j - 3][e]]]

\* lines 70-71: y_var[3:] = keep (broadcast when it has one row); y_var[:3] = 1.0
YVar0(dones_arr, n_stack, n_steps) ==
    [j \in Range(n_steps + n_stack - 1) |->
        [e \in Envs |->
            IF j < 3 THEN 1
            ELSE IF n_steps = 1 THEN Keep(dones_arr, n_steps)[0][e]
            ELSE Keep(dones_arr, n_steps)[j - 3][e]]]

\* lines 73-77: the loop, iterations i .. n_stack-1, on the state (obs, x_var, y_var)
RECURSIVE DecodeLoop(_, _, _, _, _)
DecodeLoop(i, n_stack, obs, x_var, y_var) ==
    IF i >= n_stack THEN obs
    ELSE
        LET row == n_stack - (i + 1)    \* obs[-(i + 1)]
            obs1 == [p \in DOMAIN obs |->
                        [j \in DOMAIN obs[p] |->
                            IF p = row /\ j >= i
                            THEN [e \in Envs |-> ToUint8(x_var[j - i][e])]
                            ELSE obs[p][j]]]
            nx == Cardinality(DOMAIN x_var)
            ny == Cardinality(DOMAIN y_var)
            x1 == [j \in Range(nx - 1) |->
                      [e \in Envs |-> x_var[j][e] * y_var[j][e]]]
            y1 == [j \in Range(ny - 1) |-> y_var[j + 1]]
        IN  DecodeLoop(i + 1, n_stack, obs1, x1, y1)

\* line 67
ObsZeros(n_stack, n_steps) ==
    [p \in Range(n_stack) |->
        [j \in Range(n_steps + n_stack) |-> [e \in Envs |-> 0]]]

\* lines 78-79: obs[:, 3:] has n_stack * max(0, n_steps + n_stack - 3) frames per
\* environment; the reshape needs n_stack * (n_steps + 1)
ReshapeOk(n_stack, n_steps) ==
    n_stack * Max(0, n_steps + n_stack - 3) = n_stack * (n_steps + 1)

\* what a call produces: a returned value or a raised exception
Raise(exc) == [tag |-> "raise", exc |-> exc]
Return(val) == [tag |-> "return", val |-> val]

\* lines 66, 70-71: the keep mask the code builds, or the error of line 70
YVarLiteral(dones_arr, n_stack, n_steps) ==
    IF YAssignOk(n_stack, n_steps)
    THEN Return(YVar0(dones_arr, n_stack, n_steps))
    ELSE Raise("ValueError")

decode(obs_block, dones_arr, n_stack, n_steps) ==
    IF NFrames(obs_block) # n_steps + n_stack THEN Raise("ValueError")  \* line 69
    ELSE IF Cardinality(DOMAIN dones_arr[0]) # n_steps
         THEN Raise("ValueError")                                       \* line 70
    ELSE IF ~YAssignOk(n_stack, n_steps) THEN Raise("ValueError")       \* line 70
    ELSE IF ~ReshapeOk(n_stack, n_steps) THEN Raise("ValueError")       \* line 78
    ELSE
        LET obs == DecodeLoop(0, n_stack, ObsZeros(n_stack, n_steps),
                              XVar0(obs_block, n_stack, n_steps),
                              YVar0(dones_arr, n_stack, n_steps))
        IN  Return([e \in Envs |->
                       [t \in Range(n_steps + 1) |->
                           [p \in Range(n_stack) |-> obs[p][t + 3][e]]]])

(***************************************************************************)
(* The batches a caller passes to put.  Batch 3 carries values wider than  *)
(* the storage dtypes (fractional actions, rewards and mus beyond 2^24).   *)
(* Frames are non-zero uint8 values, distinct per batch, environment and   *)
(* timestep.                                                               *)
(***************************************************************************)
n_act == 2          \* trailing axis of mus

Wide(b) == b % 3 = 0

MkBatch(b, n_stack, n_steps) ==
    [enc_obs |-> [e \in Envs |-> [j \in Range(n_steps + n_stack) |->
                     40 * b + 20 * e + j + 1]],
     actions |-> [e \in Envs |-> [s \in Range(n_steps) |->
                     IF Wide(b) THEN 2 * (2 * e + s) + 1
                     ELSE 2 * (10 * b + 2 * e + s)]],
     rewards |-> [e \in Envs |-> [s \in Range(n_steps) |->
                     IF Wide(b) THEN 16777217 + 2 * e
                     ELSE b + e - s]],
     mus     |-> [e \in Envs |-> [s \in Range(n_steps) |-> [a \in Range(n_act) |->
                     IF Wide(b) THEN 16777219 + a
                     ELSE b + e + s + a]]],
     dones   |-> [e \in Envs |-> [s \in Range(n_steps) |->
                     b # 1 /\ (b + e + s) % 2 = 0]],
     masks   |-> [e \in Envs |-> [s \in Range(n_steps) |->
                     (b + s) % 2 = 1]]]

(***************************************************************************)
(* __init__, lines 14-32.                                                  *)
(***************************************************************************)
SizeArgs == 0 .. MaxSize

\* a storage attribute before the first put
None == [alloc |-> FALSE]

\* a capacity that is never less than one slot
CapacityAtLeastOne(size_arg, n_steps) == Max(1, size_arg \div n_steps)

\* line 20
Capacity(size_arg, n_steps) == size_arg \div n_steps

BufferInit(size_arg) ==
    /\ nsteps \in 1 .. MaxSteps
    /\ nstack \in (MaxStack - 1) .. MaxStack
    /\ size = Capacity(size_arg, nsteps)
    /\ enc_obs = None
    /\ actions = None
    /\ rewards = None
    /\ mus = None
    /\ dones = None
    /\ masks = None
    /\ next_idx = 0
    /\ num_in_buffer = 0

Init ==
    \E size_arg \in SizeArgs :
        /\ BufferInit(size_arg)
        /\ call = [op |-> "init", size |-> size_arg]
        /\ prevOp = "none"
        /\ ret = Return("None")
        /\ hist = << >>
        /\ writer = [i \in Range(size) |-> 0 - 1]
        /\ SingleThread

(***************************************************************************)
(* has_atleast and can_sample, lines 34-51.                                *)
(***************************************************************************)
can_sampleAlways == num_in_buffer >= 0

\* the comparison made strict
has_atleastStrict(frames) == num_in_buffer > (frames \div nsteps)

has_atleast(frames) == num_in_buffer >= (frames \div nsteps)

can_sample == num_in_buffer > 0

(***************************************************************************)
(* put, lines 81-112.                                                      *)
(***************************************************************************)
\* a slot of np.empty: its content is whatever the memory held
Uninit == [set |-> FALSE]

Stored(val) == [set |-> TRUE, val |-> val]

\* np.empty([self.size] + shape)
Empty(n) == [alloc |-> TRUE, slots |-> [i \in Range(n) |-> Uninit]]

\* an allocation that every put repeats
AllocatedAfresh(arr) == Empty(size)

\* lines 96-102: an array after the allocation test on self.enc_obs
Allocated(arr) == IF ~enc_obs.alloc THEN Empty(size) ELSE arr

\* lines 104-109: one field's slot assignment
WriteSlot(arr, i, val) ==
    [Allocated(arr) EXCEPT !.slots = [@ EXCEPT ![i] = Stored(val)]]

\* faults of the index update, used to test the ring properties
NextIdxStuck(i) == i % size

NextIdxNoWrap(i) == i + 1

\* line 111
NextIdx(i) == (i + 1) % size

NumInBufferUnclamped(n) == n + 1

\* the count wrapping around like the write index
NumInBufferWrap(n) == (n + 1) % (size + 1)

\* line 112
NumInBuffer(n) == Min(size, n + 1)

Put(b) ==
    LET args == MkBatch(b, nstack, nsteps) IN
    /\ Len(hist) < MaxPuts
    /\ call' = [op |-> "put", batch |-> b]
    /\ prevOp' = call.op
    /\ IF next_idx \notin Range(size)
       THEN \* line 104: index out of bounds, after the allocation
            /\ ret' = Raise("IndexError")
            /\ enc_obs' = Allocated(enc_obs)
            /\ actions' = Allocated(actions)
            /\ rewards' = Allocated(rewards)
            /\ mus' = Allocated(mus)
            /\ dones' = Allocated(dones)
            /\ masks' = Allocated(masks)
            /\ UNCHANGED <<next_idx, num_in_buffer, hist, writer>>
       ELSE /\ enc_obs' = WriteSlot(enc_obs, next_idx, CastArr(args.enc_obs, "uint8"))
            /\ actions' = WriteSlot(actions, next_idx, CastArr(args.actions, "int32"))
            /\ rewards' = WriteSlot(rewards, next_idx, CastArr(args.rewards, "float32"))
            /\ mus' = WriteSlot(mus, next_idx, CastMus(args.mus))
            /\ dones' = WriteSlot(dones, next_idx, CastArr(args.dones, "bool"))
            /\ masks' = WriteSlot(masks, next_idx, CastArr(args.masks, "bool"))
            /\ next_idx' = NextIdx(next_idx)
            /\ num_in_buffer' = NumInBuffer(num_in_buffer)
            /\ ret' = Return("None")
            /\ hist' = Append(hist, b)
            /\ writer' = [writer EXCEPT ![next_idx] = Len(hist)]
    /\ UNCHANGED <<nsteps, nstack, size, threads>>

(***************************************************************************)
(* take, lines 114-127.                                                    *)
(***************************************************************************)
\* faults of the gather: one environment's column, or one slot, for every row
takeEnv0(arr, idx, envx) == [i \in Envs |-> arr.slots[idx[i]].val[envx[0]]]

takeSlot0(arr, idx, envx) == [i \in Envs |-> arr.slots[idx[0]].val[envx[i]]]

take(arr, idx, envx) == [i \in Envs |-> arr.slots[idx[i]].val[envx[i]]]

(***************************************************************************)
(* get, lines 129-154.                                                     *)
(***************************************************************************)
\* a draw over the whole ring instead of its filled part
SampleIdxAll == [Envs -> Range(size)]

\* line 144: the index vectors np.random.randint(0, num_in_buffer, n_env) can return
SampleIdx == [Envs -> Range(num_in_buffer)]

\* line 145
Envx == [e \in Envs |-> e]

\* the sampled slots that no put has written: reading them yields arbitrary memory
ReadsUninit(idx) == \E e \in Envs : ~dones.slots[idx[e]].set

\* a get that gathers the actions at slots of their own
GetResultMixed(idx) ==
    IF ReadsUninit(idx) THEN [tag |-> "garbage"]
    ELSE
        LET d == take(dones, idx, Envx)
            o == take(enc_obs, idx, Envx)
            obs == decode(o, d, nstack, nsteps)
            idx2 == [e \in Envs |-> (idx[e] + 1) % num_in_buffer]
        IN  IF obs.tag = "raise" THEN obs
            ELSE Return([obs |-> obs.val,
                         actions |-> take(actions, idx2, Envx),
                         rewards |-> take(rewards, idx, Envx),
                         mus |-> take(mus, idx, Envx),
                         dones |-> d,
                         masks |-> take(masks, idx, Envx)])

\* lines 147-154
GetResult(idx) ==
    IF ReadsUninit(idx) THEN [tag |-> "garbage"]
    ELSE
        LET d == take(dones, idx, Envx)
            o == take(enc_obs, idx, Envx)
            obs == decode(o, d, nstack, nsteps)
        IN  IF obs.tag = "raise" THEN obs
            ELSE Return([obs |-> obs.val,
                         actions |-> take(actions, idx, Envx),
                         rewards |-> take(rewards, idx, Envx),
                         mus |-> take(mus, idx, Envx),
                         dones |-> d,
                         masks |-> take(masks, idx, Envx)])

\* a get that consumes what it reads
GetConsumes ==
    /\ UNCHANGED <<nsteps, nstack, size, store, next_idx>>
    /\ num_in_buffer' = num_in_buffer - 1

\* get assigns no attribute of self
GetLeaves == UNCHANGED <<nsteps, nstack, size, store, next_idx, num_in_buffer>>

GetEmpty ==
    /\ ~can_sample                              \* line 141: the assertion fails
    /\ call' = [op |-> "get"]
    /\ prevOp' = call.op
    /\ ret' = Raise("AssertionError")
    /\ GetLeaves
    /\ UNCHANGED <<hist, writer, threads>>

\* get drawing the index vector idx on line 144
GetAt(idx) ==
    /\ can_sample
    /\ call' = [op |-> "get", idx |-> idx]
    /\ prevOp' = call.op
    /\ ret' = GetResult(idx)
    /\ GetLeaves
    /\ UNCHANGED <<hist, writer, threads>>

GetSample == \E idx \in SampleIdx : GetAt(idx)

Next ==
    \/ \E b \in Seeds : Put(b)
    \/ GetEmpty
    \/ GetSample

Spec == Init /\ [][Next]_vars

(***************************************************************************)
(* The buffer with its two queries called between the puts and gets.       *)
(***************************************************************************)
HasAtleastCall(frames) ==
    /\ call' = [op |-> "has_atleast", frames |-> frames]
    /\ prevOp' = call.op
    /\ ret' = Return(has_atleast(frames))
    /\ UNCHANGED <<nsteps, nstack, size, store, next_idx, num_in_buffer,
                   hist, writer, threads>>

CanSampleCall ==
    /\ call' = [op |-> "can_sample"]
    /\ prevOp' = call.op
    /\ ret' = Return(can_sample)
    /\ UNCHANGED <<nsteps, nstack, size, store, next_idx, num_in_buffer,
                   hist, writer, threads>>

NextQuery ==
    \/ Next
    \/ \E frames \in 0 .. MaxFrames : HasAtleastCall(frames)
    \/ CanSampleCall

SpecQuery == Init /\ [][NextQuery]_vars

(***************************************************************************)
(* decode called on its own: every stack depth, every pattern of done      *)
(* flags, and a block of nsteps + nstack frames per environment (the shape *)
(* line 61 documents) or one frame less.                                   *)
(***************************************************************************)
Pending == [tag |-> "pending"]

Idle ==
    /\ enc_obs = None
    /\ rewards = None
    /\ mus = None
    /\ dones = None
    /\ masks = None
    /\ next_idx = 0
    /\ num_in_buffer = 0
    /\ prevOp = "none"
    /\ hist = << >>
    /\ writer = << >>
    /\ SingleThread

FrameBlocks(n_frames) == {MkBatch(b, 0, n_frames).enc_obs : b \in {1, 2}}

InitDecode ==
    /\ Idle
    /\ size = 0
    /\ actions = None
    /\ nsteps \in 1 .. MaxDecSteps
    /\ nstack \in 1 .. MaxStack
    /\ \E n_frames \in {nsteps + nstack - 1, nsteps + nstack} :
       \E o \in FrameBlocks(n_frames) :
       \E d \in [Envs -> [Range(nsteps) -> BOOLEAN]] :
          call = [op |-> "decode", enc_obs |-> o, dones |-> d]
    /\ ret = Pending

DecodeCall ==
    /\ call.op = "decode"
    /\ ret = Pending
    /\ ret' = decode(call.enc_obs, call.dones, nstack, nsteps)
    /\ UNCHANGED <<nsteps, nstack, size, store, next_idx, num_in_buffer,
                   call, prevOp, hist, writer, threads>>

NextDecode == DecodeCall

SpecDecode == InitDecode /\ [][NextDecode]_vars

(***************************************************************************)
(* take called on its own, on a field array held in self.actions: every    *)
(* content of the array and every index vector into its slots.             *)
(***************************************************************************)
CellVals == {0, 1, 2}

InitTake ==
    /\ Idle
    /\ nsteps = 1
    /\ nstack = 1
    /\ size \in 1 .. MaxSize
    /\ \E sl \in [Range(size) -> {Stored(v) : v \in [Envs -> CellVals]}] :
          actions = [alloc |-> TRUE, slots |-> sl]
    /\ \E idx \in [Envs -> Range(size)] :
          call = [op |-> "take", arr |-> actions, idx |-> idx, envx |-> Envx]
    /\ ret = Pending

TakeCall ==
    /\ call.op = "take"
    /\ ret = Pending
    /\ ret' = Return(take(actions, call.idx, call.envx))
    /\ UNCHANGED <<nsteps, nstack, size, store, next_idx, num_in_buffer,
                   call, prevOp, hist, writer, threads>>

NextTake == TakeCall

SpecTake == InitTake /\ [][NextTake]_vars

(***************************************************************************)
(* put and get called from two threads, a writer and a reader, each        *)
(* running its call line by line: a line is one step (the interpreter      *)
(* lock makes each array assignment and each gather atomic, nothing more). *)
(* The class takes no lock; with lock = "none" the two calls interleave    *)
(* freely.  With a lock (section 5 of the design: one exclusive lock held  *)
(* for the duration of each put or get) a call starts when the lock is     *)
(* free and holds it until it ends.  The ring has at least one slot, one   *)
(* step per slot and four stacked frames, so that every put completes and  *)
(* decode returns; the writer admits batch 1, 2, 3, ... in turn.  call,    *)
(* prevOp and ret follow the reader.                                       *)
(***************************************************************************)
Acquire(who) ==
    IF lock = "none" THEN lock' = "none" ELSE lock = "free" /\ lock' = who

Release == lock' = IF lock = "none" THEN "none" ELSE "free"

InitThreads ==
    /\ \E size_arg \in 1 .. MaxSize :
          /\ BufferInit(size_arg)
          /\ call = [op |-> "init", size |-> size_arg]
    /\ nsteps = 1
    /\ nstack = 4
    /\ prevOp = "none"
    /\ ret = Return("None")
    /\ hist = << >>
    /\ writer = [i \in Range(size) |-> 0 - 1]
    /\ pc = NoCall
    /\ loc = NoLocals
    /\ lock \in {"none", "free"}

\* the arguments of the put in flight
PutArgs == MkBatch(loc.put, nstack, nsteps)

\* the writer moves from one line to another
PutLine(from, to) ==
    /\ pc.put = from
    /\ pc' = [pc EXCEPT !.put = to]
    /\ UNCHANGED <<nsteps, nstack, size, call, prevOp, ret>>

PutBegin ==
    /\ Len(hist) < MaxPuts
    /\ Acquire("put")
    /\ PutLine(0, 96)
    /\ loc' = [loc EXCEPT !.put = Len(hist) + 1]
    /\ UNCHANGED <<store, next_idx, num_in_buffer, hist, writer>>

\* lines 96-102
Put96 ==
    /\ PutLine(96, 104)
    /\ enc_obs' = Allocated(enc_obs)
    /\ actions' = Allocated(actions)
    /\ rewards' = Allocated(rewards)
    /\ mus' = Allocated(mus)
    /\ dones' = Allocated(dones)
    /\ masks' = Allocated(masks)
    /\ UNCHANGED <<next_idx, num_in_buffer, hist, writer, lock, loc>>

Put104 ==
    /\ PutLine(104, 105)
    /\ enc_obs' = WriteSlot(enc_obs, next_idx, CastArr(PutArgs.enc_obs, "uint8"))
    /\ UNCHANGED <<actions, rewards, mus, dones, masks,
                   next_idx, num_in_buffer, hist, writer, lock, loc>>

Put105 ==
    /\ PutLine(105, 106)
    /\ actions' = WriteSlot(actions, next_idx, CastArr(PutArgs.actions, "int32"))
    /\ UNCHANGED <<enc_obs, rewards, mus, dones, masks,
                   next_idx, num_in_buffer, hist, writer, lock, loc>>

Put106 ==
    /\ PutLine(106, 107)
    /\ rewards' = WriteSlot(rewards, next_idx, CastArr(PutArgs.rewards, "float32"))
    /\ UNCHANGED <<enc_obs, actions, mus, dones, masks,
                   next_idx, num_in_buffer, hist, writer, lock, loc>>

Put107 ==
    /\ PutLine(107, 108)
    /\ mus' = WriteSlot(mus, next_idx, CastMus(PutArgs.mus))
    /\ UNCHANGED <<enc_obs, actions, rewards, dones, masks,
                   next_idx, num_in_buffer, hist, writer, lock, loc>>

Put108 ==
    /\ PutLine(108, 109)
    /\ dones' = WriteSlot(dones, next_idx, CastArr(PutArgs.dones, "bool"))
    /\ UNCHANGED <<enc_obs, actions, rewards, mus, masks,
                   next_idx, num_in_buffer, hist, writer, lock, loc>>

Put109 ==
    /\ PutLine(109, 111)
    /\ masks' = WriteSlot(masks, next_idx, CastArr(PutArgs.masks, "bool"))
    /\ UNCHANGED <<enc_obs, actions, rewards, mus, dones,
                   next_idx, num_in_buffer, hist, writer, lock, loc>>

Put111 ==
    /\ PutLine(111, 112)
    /\ next_idx' = NextIdx(next_idx)
    /\ writer' = [writer EXCEPT ![next_idx] = Len(hist)]
    /\ UNCHANGED <<store, num_in_buffer, hist, lock, loc>>

\* line 112, and the return
Put112 ==
    /\ PutLine(112, 0)
    /\ num_in_buffer' = NumInBuffer(num_in_buffer)
    /\ hist' = Append(hist, loc.put)
    /\ loc' = [loc EXCEPT !.put = 0]
    /\ Release
    /\ UNCHANGED <<store, next_idx, writer>>

\* a local variable of get not assigned yet
Unread == [set |-> FALSE]

\* the reader moves from one line to another
GetLine(from, to) ==
    /\ pc.get = from
    /\ pc' = [pc EXCEPT !.get = to]
    /\ UNCHANGED <<nsteps, nstack, size, store, next_idx, num_in_buffer,
                   hist, writer>>

GetBegin ==
    /\ Acquire("get")
    /\ GetLine(0, 141)
    /\ call' = [op |-> "get"]
    /\ prevOp' = call.op
    /\ ret' = Pending
    /\ UNCHANGED loc

\* line 141, the assertion fails
Get141Fails ==
    /\ ~can_sample
    /\ GetLine(141, 0)
    /\ ret' = Raise("AssertionError")
    /\ Release
    /\ UNCHANGED <<call, prevOp, loc>>

\* lines 141-145, the assertion holds
Get144 ==
    /\ can_sample
    /\ GetLine(141, 147)
    /\ \E idx \in SampleIdx :
          /\ call' = [op |-> "get", idx |-> idx]
          /\ loc' = [loc EXCEPT !.get =
                        [idx |-> idx, dones |-> Unread, enc_obs |-> Unread,
                         obs |-> Unread, actions |-> Unread, rewards |-> Unread,
                         mus |-> Unread, masks |-> Unread]]
    /\ UNCHANGED <<prevOp, ret, lock>>

Get147 ==
    /\ GetLine(147, 148)
    /\ loc' = [loc EXCEPT !.get.dones = take(dones, loc.get.idx, Envx)]
    /\ UNCHANGED <<call, prevOp, ret, lock>>

Get148 ==
    /\ GetLine(148, 149)
    /\ loc' = [loc EXCEPT !.get.enc_obs = take(enc_obs, loc.get.idx, Envx)]
    /\ UNCHANGED <<call, prevOp, ret, lock>>

Get149 ==
    /\ pc.get = 149
    /\ LET obs == decode(loc.get.enc_obs, loc.get.dones, nstack, nsteps) IN
       IF obs.tag = "raise"
       THEN /\ GetLine(149, 0)
            /\ ret' = obs
            /\ loc' = [loc EXCEPT !.get = NoLocals.get]
            /\ Release
            /\ UNCHANGED <<call, prevOp>>
       ELSE /\ GetLine(149, 150)
            /\ loc' = [loc EXCEPT !.get.obs = obs.val]
            /\ UNCHANGED <<call, prevOp, ret, lock>>

\* the actions gathered at slots of their own
Get150Mixed ==
    /\ GetLine(150, 151)
    /\ loc' = [loc EXCEPT !.get.actions =
                  take(actions,
                       [e \in Envs |-> (loc.get.idx[e] + 1) % num_in_buffer],
                       Envx)]
    /\ UNCHANGED <<call, prevOp, ret, lock>>

Get150 ==
    /\ GetLine(150, 151)
    /\ loc' = [loc EXCEPT !.get.actions = take(actions, loc.get.idx, Envx)]
    /\ UNCHANGED <<call, prevOp, ret, lock>>

Get151 ==
    /\ GetLine(151, 152)
    /\ loc' = [loc EXCEPT !.get.rewards = take(rewards, loc.get.idx, Envx)]
    /\ UNCHANGED <<call, prevOp, ret, lock>>

Get152 ==
    /\ GetLine(152, 153)
    /\ loc' = [loc EXCEPT !.get.mus = take(mus, loc.get.idx, Envx)]
    /\ UNCHANGED <<call, prevOp, ret, lock>>

Get153 ==
    /\ GetLine(153, 154)
    /\ loc' = [loc EXCEPT !.get.masks = take(masks, loc.get.idx, Envx)]
    /\ UNCHANGED <<call, prevOp, ret, lock>>

Get154 ==
    /\ GetLine(154, 0)
    /\ ret' = Return([obs |-> loc.get.obs,
                      actions |-> loc.get.actions,
                      rewards |-> loc.get.rewards,
                      mus |-> loc.get.mus,
                      dones |-> loc.get.dones,
                      masks |-> loc.get.masks])
    /\ loc' = [loc EXCEPT !.get = NoLocals.get]
    /\ Release
    /\ UNCHANGED <<call, prevOp>>

NextThreads ==
    \/ PutBegin \/ Put96 \/ Put104 \/ Put105 \/ Put106 \/ Put107 \/ Put108
    \/ Put109 \/ Put111 \/ Put112
    \/ GetBegin \/ Get141Fails \/ Get144 \/ Get147 \/ Get148 \/ Get149
    \/ Get150 \/ Get151 \/ Get152 \/ Get153 \/ Get154

SpecThreads == InitThreads /\ [][NextThreads]_vars

(***************************************************************************)
(* Properties of the ring (specification Spec).                            *)
(***************************************************************************)
\* the slots of a storage attribute, before and after its allocation
Slots(arr) == IF arr.alloc THEN arr.slots ELSE [i \in Range(size) |-> Uninit]

\* slot i holds batch b in all six fields, each through the dtype of its array
SlotHolds(i, b, f_obs, f_act, f_rew, f_mus, f_done, f_mask) ==
    LET args == MkBatch(b, nstack, nsteps) IN
    /\ Slots(f_obs)[i] = Stored(CastArr(args.enc_obs, "uint8"))
    /\ Slots(f_act)[i] = Stored(CastArr(args.actions, "int32"))
    /\ Slots(f_rew)[i] = Stored(CastArr(args.rewards, "float32"))
    /\ Slots(f_mus)[i] = Stored(CastMus(args.mus))
    /\ Slots(f_done)[i] = Stored(args.dones)
    /\ Slots(f_mask)[i] = Stored(args.masks)

\* slot i is the same before and after the step, in all six fields
SlotKept(i) ==
    /\ Slots(enc_obs')[i] = Slots(enc_obs)[i]
    /\ Slots(actions')[i] = Slots(actions)[i]
    /\ Slots(rewards')[i] = Slots(rewards)[i]
    /\ Slots(mus')[i] = Slots(mus)[i]
    /\ Slots(dones')[i] = Slots(dones)[i]
    /\ Slots(masks')[i] = Slots(masks)[i]

\* the step is a put that completed
PutDone == call'.op = "put" /\ ret' = Return("None") /\ Len(hist') = Len(hist) + 1

\* the step is a call of get
GetStep == call'.op = "get"

\* the slot written least recently (an unwritten slot counts as oldest)
Lru == CHOOSE i \in Range(size) : \A j \in Range(size) : writer[i] <= writer[j]

C1_Retained ==
    Len(hist) >= size =>
        /\ num_in_buffer = size
        /\ \A m \in (Len(hist) - size) .. (Len(hist) - 1) :
              /\ writer[m % size] = m
              /\ SlotHolds(m % size, hist[m + 1],
                           enc_obs, actions, rewards, mus, dones, masks)
        /\ \A i \in Range(size) : writer[i] >= Len(hist) - size

C1_OverwritesOldest ==
    (PutDone /\ num_in_buffer = size) =>
        \A i \in Range(size) :
            IF i = Lru
            THEN /\ writer'[i] = Len(hist)
                 /\ SlotHolds(i, hist'[Len(hist')],
                              enc_obs', actions', rewards', mus', dones', masks')
            ELSE SlotKept(i) /\ writer'[i] = writer[i]

\* C1: after capacity + k completed puts the ring is full, admission m sits in
\* slot m mod capacity for the last capacity admissions, no slot holds an older
\* admission, and a put on a full ring overwrites the least recently written
\* slot and no other.
C1_RingOverwrite == [](C1_Retained) /\ [][C1_OverwritesOldest]_vars

\* a ring of two slots after three puts: slot 0 overwritten by admission 2
C1_Witness == size = 2 /\ Len(hist) = 3 /\ writer[0] = 2 /\ writer[1] = 1

C2_Effect ==
    PutDone =>
        /\ SlotHolds(next_idx, call'.batch,
                     enc_obs', actions', rewards', mus', dones', masks')
        /\ \A i \in Range(size) \ {next_idx} : SlotKept(i)
        /\ next_idx' = (next_idx + 1) % size
        /\ num_in_buffer' = IF num_in_buffer + 1 <= size THEN num_in_buffer + 1 ELSE size

C2_Counts ==
    /\ num_in_buffer = IF Len(hist) <= size THEN Len(hist) ELSE size
    /\ size >= 1 => next_idx = Len(hist) % size

\* C2: a completed put stores its six arguments in the slot at next_idx (through
\* the dtype of each array), leaves the other slots as they were, advances
\* next_idx modulo the capacity and sets num_in_buffer to min(capacity,
\* num_in_buffer + 1); after n puts num_in_buffer = min(n, capacity) and
\* next_idx = n mod capacity.
C2_PutEffect == [](C2_Counts) /\ [][C2_Effect]_vars

\* a third put on a ring of two slots: the count stays clamped at 2
C2_Witness == size = 2 /\ Len(hist) = 3 /\ call.op = "put" /\ num_in_buffer = 2 /\ next_idx = 1

\* C3 as stated: both indexes stay inside the capacity.
C3_Original ==
    /\ 0 <= next_idx /\ next_idx < size
    /\ 0 <= num_in_buffer /\ num_in_buffer <= size

\* C3, amended: 0 <= num_in_buffer <= capacity and 0 <= next_idx in every
\* state; next_idx < capacity when the capacity is at least 1, and next_idx
\* stays 0 when the capacity is 0.
C3_IndexBounds ==
    /\ 0 <= num_in_buffer /\ num_in_buffer <= size
    /\ 0 <= next_idx
    /\ size >= 1 => next_idx < size
    /\ size = 0 => next_idx = 0

\* the write index wrapped around a ring of two slots
C3_Witness == size = 2 /\ Len(hist) = 2 /\ next_idx = 0 /\ num_in_buffer = 2

C4_InRange ==
    (call.op = "get" /\ ret # Raise("AssertionError")) =>
        /\ ret.tag # "garbage"
        /\ \A e \in Envs :
              /\ call.idx[e] \in Range(num_in_buffer)
              /\ writer[call.idx[e]] >= 0
              /\ Slots(enc_obs)[call.idx[e]].set /\ Slots(actions)[call.idx[e]].set
              /\ Slots(rewards)[call.idx[e]].set /\ Slots(mus)[call.idx[e]].set
              /\ Slots(dones)[call.idx[e]].set /\ Slots(masks)[call.idx[e]].set

C4_Independent ==
    \A idx \in [Envs -> Range(num_in_buffer)] : ENABLED GetAt(idx)

\* C4: every index get draws lies in [0, num_in_buffer) and names a slot that a
\* put has written, in all six fields; and every vector of such indexes, one
\* per environment, can be drawn.
C4_SampledSlots == C4_InRange /\ C4_Independent

\* a get after the ring wrapped in which the two environments read different slots
C4_Witness ==
    /\ call.op = "get" /\ ret.tag = "return"
    /\ call.idx[0] # call.idx[1]
    /\ Len(hist) > size

C5_GetStep ==
    GetStep =>
        IF num_in_buffer = 0
        THEN /\ ret' = Raise("AssertionError")
             /\ UNCHANGED <<store, next_idx, num_in_buffer>>
        ELSE ret' # Raise("AssertionError")

C5_CanSample ==
    /\ can_sample <=> num_in_buffer > 0
    /\ can_sample <=> Len(hist) > 0

\* C5: can_sample is true iff num_in_buffer > 0, that is iff some put has
\* completed; a get while it is false raises the assertion error (the
\* EmptyBuffer failure) and changes neither index nor the storage; a get while
\* it is true does not raise it.
C5_EmptyBuffer == [](C5_CanSample) /\ [][C5_GetStep]_vars

\* a refused get on the empty store
C5_Witness == call.op = "get" /\ ret = Raise("AssertionError") /\ num_in_buffer = 0

C8_GetStep == GetStep => UNCHANGED <<store, next_idx, num_in_buffer>>

C8_OnlyPut ==
    (<<store, next_idx, num_in_buffer>>' # <<store, next_idx, num_in_buffer>>) =>
        call'.op = "put"

\* C8: a get, whether it returns or raises, leaves next_idx, num_in_buffer and
\* every slot of the six fields unchanged; they change only in a put.
C8_ReadOnly == [][C8_GetStep /\ C8_OnlyPut]_vars

\* a get that returned a sample from a full ring
C8_Witness == call.op = "get" /\ ret.tag = "return" /\ num_in_buffer = size /\ prevOp = "put"

(***************************************************************************)
(* Round trip through a ring of one slot (specification Spec).             *)
(***************************************************************************)
\* the arguments of the last completed put
LastArgs == MkBatch(hist[Len(hist)], nstack, nsteps)

\* a get called right after a put on a ring of one slot
GetAfterPut == size = 1 /\ call.op = "get" /\ prevOp = "put"

\* C6 as stated: the get returns the five fields exactly as they were passed
\* to put, and its stacked observations are what decode(o, d) gives (a get
\* whose decode raises is held to the same outcome as decode(o, d)).
C6_Original ==
    GetAfterPut =>
        LET dec == decode(LastArgs.enc_obs, LastArgs.dones, nstack, nsteps) IN
        IF dec.tag = "raise" THEN ret = dec
        ELSE /\ ret.tag = "return"
             /\ ret.val.obs = dec.val
             /\ ret.val.actions = LastArgs.actions
             /\ ret.val.rewards = LastArgs.rewards
             /\ ret.val.mus = LastArgs.mus
             /\ ret.val.dones = LastArgs.dones
             /\ ret.val.masks = LastArgs.masks

Abs(v) == IF v >= 0 THEN v ELSE 0 - v

\* v2 is the value v comes back as from a float32 array: v itself when 24 bits
\* hold it, else the neighbour with the even mantissa
AsFloat32(v, v2) ==
    IF Abs(v) <= 16777216 \/ v % 2 = 0 THEN v2 = v
    ELSE Abs(v2 - v) = 1 /\ v2 % 4 = 0

\* h2 is the value h (in halves) comes back as from an int32 array: h itself
\* when it is whole, else the whole number next to it towards zero
AsInt32(h, h2) ==
    IF h % 2 = 0 THEN h2 = h
    ELSE Abs(h2 - h) = 1 /\ h2 % 2 = 0 /\ Abs(h2) < Abs(h)

\* C6, amended: on a ring of one slot with uint8 frames, a get right after
\* put(o, a, r, m, d, msk) returns d and msk exactly, a, r and m as the int32
\* and float32 arrays hold them (exactly a, r and m when they are whole
\* numbers and floats of 24 bits), and the stacked observations decode(o, d)
\* returns; when decode(o, d) raises, the get raises the same error.
C6_RoundTrip ==
    GetAfterPut =>
        LET dec == decode(LastArgs.enc_obs, LastArgs.dones, nstack, nsteps) IN
        IF dec.tag = "raise" THEN ret = dec
        ELSE /\ ret.tag = "return"
             /\ ret.val.obs = dec.val
             /\ ret.val.dones = LastArgs.dones
             /\ ret.val.masks = LastArgs.masks
             /\ \A e \in Envs : \A s \in Range(nsteps) :
                   /\ AsInt32(LastArgs.actions[e][s], ret.val.actions[e][s])
                   /\ AsFloat32(LastArgs.rewards[e][s], ret.val.rewards[e][s])
                   /\ \A a \in Range(n_act) :
                         AsFloat32(LastArgs.mus[e][s][a], ret.val.mus[e][s][a])

\* a get that returns the batch of a second put, which overwrote the one slot
C6_Witness ==
    /\ GetAfterPut /\ ret.tag = "return" /\ Len(hist) >= 2
    /\ ret.val.actions = LastArgs.actions
    /\ \E e \in Envs : \E s \in Range(nsteps) : LastArgs.dones[e][s]

(***************************************************************************)
(* take on its own (specification SpecTake).                               *)
(***************************************************************************)
\* C7: take returns n_env rows, row e being field[idx[e], e], the row of
\* environment e in the slot drawn for e, and leaves the field as it was.
C7_Gather ==
    ret.tag = "return" =>
        /\ DOMAIN ret.val = Envs
        /\ \A e \in Envs : ret.val[e] = call.arr.slots[call.idx[e]].val[e]
        /\ actions = call.arr

\* two environments gathered from different slots whose rows all differ
C7_Witness ==
    /\ ret.tag = "return" /\ call.op = "take"
    /\ call.idx[0] = 1 /\ call.idx[1] = 0
    /\ ret.val[0] # call.arr.slots[1].val[1]
    /\ ret.val[0] # call.arr.slots[0].val[0]
    /\ ret.val[1] # call.arr.slots[0].val[0]

(***************************************************************************)
(* decode on its own (specification SpecDecode).                           *)
(***************************************************************************)
\* a done flag on one of the k steps that lead to output timestep t
Crossed(e, t, k) ==
    \E s \in Range(nsteps) : t - k <= s /\ s < t /\ call.dones[e][s]

\* the raw frame k timesteps before the frame of output timestep t, which is
\* frame t + nstack - 1 of the block
RawFrame(e, t, k) == call.enc_obs[e][t + nstack - 1 - k]

\* the decoded frame at output timestep t and depth k (0 = most recent)
Decoded(e, t, k) == ret.val[e][t][nstack - 1 - k]

DoneOnlyAt(e, t) == \A s \in Range(nsteps) : call.dones[e][s] <=> s = t

\* C10: with nstack = 2 and one done flag, at step t, the decoded frames at
\* timesteps after t are zero at the depths that reach back to t or before,
\* and the raw frames at the other depths.
C10_ZeroBoundary ==
    (call.op = "decode" /\ ret # Pending /\ nstack = 2) =>
        /\ ret.tag = "return"
        /\ \A e \in Envs : \A t \in Range(nsteps) :
              DoneOnlyAt(e, t) =>
                  \A t2 \in (t + 1) .. nsteps : \A k \in Range(nstack) :
                      Decoded(e, t2, k) = IF t2 - k <= t THEN 0 ELSE RawFrame(e, t2, k)

\* C11: for every nstack >= 1 and nsteps >= 1, decode given nsteps + nstack - 1
\* raw frames per environment returns, the nstack - 1 warm-up rows of its
\* intermediate output dropped, exactly nsteps + 1 timesteps per environment,
\* each of nstack stacked frames.
C11_TimestepAccounting ==
    (call.op = "decode" /\ ret # Pending
        /\ NFrames(call.enc_obs) = nsteps + nstack - 1) =>
        /\ ret.tag = "return"
        /\ \A e \in Envs :
              /\ DOMAIN ret.val[e] = Range(nsteps + 1)
              /\ \A t \in Range(nsteps + 1) :
                    DOMAIN ret.val[e][t] = Range(nstack)

\* no done flag in the call's arguments
AllFalse == \A e \in Envs : \A s \in Range(nsteps) : ~call.dones[e][s]

\* C12: with nstack = 1 and every done flag false, decode returns the raw
\* frame block as it is: one frame per timestep, as many timesteps as the
\* block has frames, none of them zeroed.
C12_Identity ==
    (call.op = "decode" /\ ret # Pending /\ nstack = 1 /\ AllFalse) =>
        /\ ret.tag = "return"
        /\ \A e \in Envs :
              /\ DOMAIN ret.val[e] = DOMAIN call.enc_obs[e]
              /\ \A t \in DOMAIN ret.val[e] :
                    /\ DOMAIN ret.val[e][t] = Range(1)
                    /\ ret.val[e][t][0] = call.enc_obs[e][t]

\* the keep mask of the documented contract: 1 on the nstack - 1 warm-up
\* timesteps, 1 - done on the nsteps timesteps that follow
YVarDocumented(dones_arr, n_stack, n_steps) ==
    [j \in Range(n_steps + n_stack - 1) |->
        [e \in Envs |->
            IF j < n_stack - 1 THEN 1
            ELSE IF dones_arr[e][j - (n_stack - 1)] THEN 0 ELSE 1]]

DonePatterns == [Envs -> [Range(nsteps) -> BOOLEAN]]

\* the mask built with the literal 3 is the documented one whatever the done
\* flags are, and dropping 3 rows leaves the nsteps + 1 documented timesteps
Coincides ==
    /\ \A d \in DonePatterns :
          YVarLiteral(d, nstack, nsteps) = Return(YVarDocumented(d, nstack, nsteps))
    /\ ReshapeOk(nstack, nsteps)

\* C16 as stated: the literal mask coincides with the contract exactly when
\* nstack = 3.
C16_Original ==
    (call.op = "decode" /\ ret # Pending) => (Coincides <=> nstack = 3)

\* C16, amended: decode's keep mask built with the literal 3, and its dropping
\* of the first 3 rows, coincide with the documented contract (keep = 1 on
\* nstack - 1 warm-up timesteps, 1 - done on the nsteps real ones, nstack - 1
\* rows dropped) exactly when nstack = 4.
C16_WarmUp ==
    (call.op = "decode" /\ ret # Pending) => (Coincides <=> nstack = 4)

\* a decode of depth 4 over two steps, one flagged done, whose mask is the
\* documented one
C16_Witness ==
    /\ call.op = "decode" /\ ret.tag = "return" /\ nstack = 4 /\ nsteps = 2
    /\ call.dones[1][0] /\ ~call.dones[1][1]
    /\ Coincides
    /\ YVarLiteral(call.dones, nstack, nsteps).val[3][1] = 0

(***************************************************************************)
(* The readiness queries (specifications SpecQuery and Spec).              *)
(***************************************************************************)
\* the whole part of f / n, found without dividing
Quotient(f, n) == CHOOSE q \in 0 .. f : q * n <= f /\ f < (q + 1) * n

C14_Readiness ==
    (call.op = "has_atleast" /\ call.frames >= 1) =>
        /\ ret = Return(num_in_buffer * nsteps >= call.frames)
        /\ num_in_buffer = 0 => ret = Return(FALSE)

C18_Step ==
    /\ num_in_buffer' >= num_in_buffer
    /\ can_sample => can_sample'
    /\ \A f \in 0 .. MaxFrames : has_atleast(f) => has_atleast(f)'

\* C18: no put and no get lowers num_in_buffer, so can_sample, once true,
\* is true in every later state, and so is has_atleast(f) for every f.
C18_Monotone == [][C18_Step]_vars

\* a full ring of two slots, put to again and then read twice: still ready
C18_Witness ==
    /\ size = 2 /\ Len(hist) = 3 /\ num_in_buffer = 2
    /\ call.op = "get" /\ prevOp = "get"
    /\ can_sample /\ has_atleast(2) /\ ~has_atleast(3)

(***************************************************************************)
(* Samples and the admissions they come from (specification Spec).         *)
(***************************************************************************)
\* the admissions the ring can still hold: the last capacity completed puts
RecentPuts == Max(0, Len(hist) - size) .. (Len(hist) - 1)

\* the arguments of admission m
ArgsOf(m) == MkBatch(hist[m + 1], nstack, nsteps)

\* row e of the returned observations is decode's row e for admission m
ObsRowOf(e, m) ==
    LET dec == decode(ArgsOf(m).enc_obs, ArgsOf(m).dones, nstack, nsteps) IN
    dec.tag = "return" /\ ret.val.obs[e] = dec.val[e]

\* C15 as stated: every row of a returned sample equals, in all five fields,
\* the row of the arguments of one recent put, and its observations are the
\* decoded row of that put.
C15_Original ==
    (call.op = "get" /\ ret.tag = "return") =>
        \A e \in Envs : \E m \in RecentPuts :
            /\ ret.val.actions[e] = ArgsOf(m).actions[e]
            /\ ret.val.rewards[e] = ArgsOf(m).rewards[e]
            /\ ret.val.mus[e] = ArgsOf(m).mus[e]
            /\ ret.val.dones[e] = ArgsOf(m).dones[e]
            /\ ret.val.masks[e] = ArgsOf(m).masks[e]
            /\ ObsRowOf(e, m)

\* C15, amended: for every get that returns and every environment e there is
\* one put among the last capacity completed puts whose row e the sample's
\* row e is in all six fields: dones and masks exactly, actions, rewards and
\* mus as the int32 and float32 arrays hold them, and the observations as
\* decode gives them for that put's frames and dones.
C15_SlotConsistency ==
    (call.op = "get" /\ ret.tag = "return") =>
        \A e \in Envs : \E m \in RecentPuts :
            /\ ret.val.dones[e] = ArgsOf(m).dones[e]
            /\ ret.val.masks[e] = ArgsOf(m).masks[e]
            /\ ObsRowOf(e, m)
            /\ \A s \in Range(nsteps) :
                  /\ AsInt32(ArgsOf(m).actions[e][s], ret.val.actions[e][s])
                  /\ AsFloat32(ArgsOf(m).rewards[e][s], ret.val.rewards[e][s])
                  /\ \A a \in Range(n_act) :
                        AsFloat32(ArgsOf(m).mus[e][s][a], ret.val.mus[e][s][a])

\* a sample of a wrapped ring of two slots whose rows come from two puts
C15_Witness ==
    /\ call.op = "get" /\ ret.tag = "return"
    /\ size = 2 /\ hist = <<1, 2, 3>>
    /\ call.idx[0] = 1 /\ call.idx[1] = 0
    /\ ret.val.dones[0] = ArgsOf(1).dones[0]
    /\ ret.val.dones[1] = ArgsOf(2).dones[1]

(***************************************************************************)
(* The lifecycle of the storage arrays (specification Spec).               *)
(***************************************************************************)
\* no storage attribute is allocated
StoreEmpty == \A k \in 1 .. 6 : store[k] = None

\* all six are, each with one slot per ring position
StoreAllocated ==
    \A k \in 1 .. 6 : store[k].alloc /\ DOMAIN store[k].slots = Range(size)

C17_States ==
    /\ StoreEmpty \/ StoreAllocated
    /\ call.op = "init" => StoreEmpty
    /\ call.op = "put" => StoreAllocated
    /\ num_in_buffer > 0 => StoreAllocated

C17_Step ==
    /\ call'.op = "put" => StoreAllocated'
    /\ (StoreEmpty /\ call'.op # "put") => StoreEmpty'
    /\ (StoreEmpty /\ call'.op = "put") =>
          \A i \in Range(size) \ {next_idx} :
              \A k \in 1 .. 6 : store'[k].slots[i] = Uninit
    /\ StoreAllocated =>
          /\ StoreAllocated'
          /\ \A i \in Range(size) \ {next_idx} : SlotKept(i)
          /\ call'.op = "get" => store' = store

\* C17: the six storage attributes are all unallocated from construction
\* until the first put, the first put (even one that fails) allocates all six
\* with one slot per ring position, no later put or get allocates again or
\* changes the number of slots (a put changes the slot it writes and no
\* other), the store never goes back to unallocated, and num_in_buffer > 0
\* implies it is allocated.
C17_Lifecycle == [](C17_States) /\ [][C17_Step]_vars

\* a second put, after a get, on the arrays the first put allocated
C17_Witness ==
    /\ StoreAllocated /\ size = 2 /\ Len(hist) = 2
    /\ call.op = "put" /\ prevOp = "get"
    /\ \A k \in 1 .. 6 : store[k].slots[0].set /\ store[k].slots[1].set

(***************************************************************************)
(* A ring without slots (specification Spec).                              *)
(***************************************************************************)
C20_States ==
    /\ (call.op = "init" /\ call.size < nsteps) => size = 0
    /\ size = 0 =>
          /\ num_in_buffer = 0 /\ next_idx = 0 /\ hist = << >>
          /\ ~can_sample
          /\ call.op = "put" => ret = Raise("IndexError")
          /\ call.op = "get" => ret = Raise("AssertionError")

C20_Step ==
    (size = 0 /\ call'.op = "put") =>
        /\ ret' = Raise("IndexError")
        /\ UNCHANGED <<next_idx, num_in_buffer>>

\* C20: a buffer built with size < nsteps has capacity 0; every put on it
\* fails (IndexError on the first slot assignment) and leaves next_idx and
\* num_in_buffer at 0, so no put completes, can_sample is false in every
\* state and every get is refused.
C20_ZeroCapacity == [](C20_States) /\ [][C20_Step]_vars

\* a get refused after a put failed on a ring without slots
C20_Witness ==
    /\ size = 0 /\ nsteps = 2 /\ StoreAllocated
    /\ call.op = "get" /\ prevOp = "put" /\ ret = Raise("AssertionError")

(***************************************************************************)
(* Samples taken while a put runs (specification SpecThreads).             *)
(***************************************************************************)
\* the batches of the puts begun so far, the one in flight included
Begun == {hist[m] : m \in 1 .. Len(hist)} \cup ({loc.put} \ {0})

\* the part of row e a get reads first (dones, frames) is batch b's
HeadFrom(e, b) ==
    LET args == MkBatch(b, nstack, nsteps) IN
    /\ ret.val.dones[e] = args.dones[e]
    /\ ret.val.obs[e] = decode(args.enc_obs, args.dones, nstack, nsteps).val[e]

\* the part it reads last (actions, rewards, mus, masks) is batch b's
TailFrom(e, b) ==
    LET args == MkBatch(b, nstack, nsteps) IN
    /\ ret.val.actions[e] = CastArr(args.actions, "int32")[e]
    /\ ret.val.rewards[e] = CastArr(args.rewards, "float32")[e]
    /\ ret.val.mus[e] = CastMus(args.mus)[e]
    /\ ret.val.masks[e] = args.masks[e]

\* row e of the returned sample is not the stored row of any one admission
Torn(e) == ~\E b \in Begun : HeadFrom(e, b) /\ TailFrom(e, b)

\* C19: when every put and every get holds one exclusive lock from its first
\* line to its last, each row of every sample a get returns is the stored
\* row of one admission in all six fields.  (Without the lock a get that
\* reads a slot while a put overwrites it returns a row of two admissions:
\* the witness.)
C19_LockedSafe ==
    (lock # "none" /\ call.op = "get" /\ ret.tag = "return") =>
        \A e \in Envs : ~Torn(e)

\* no lock, a full ring: a get returned the dones and frames of batch 1 with
\* the actions, rewards, mus and masks of batch 3, which overwrote its slot
C19_Witness ==
    /\ lock = "none" /\ call.op = "get" /\ ret.tag = "return"
    /\ num_in_buffer = size /\ size = 2
    /\ Torn(0) /\ HeadFrom(0, 1) /\ TailFrom(0, 3)

====
